---------------------------- MODULE Spec2Model ----------------------------
(***************************************************************************)
(* A model of budget_bot.py: the ledger (BudgetBot), the command           *)
(* interpreter (handle_command), the inbound poll loop                     *)
(* (poll_signal_messages), the accrual loop (weekly_task) and the process  *)
(* life cycle (main, stop, restart from budget_state.json).                *)
(***************************************************************************)
EXTENDS Integers, Sequences, FiniteSets, TLC

(***************************************************************************)
(* Python floats.  Amounts are IEEE-754 doubles.  The model keeps the      *)
(* doubles that are whole multiples of 1/8 pound and writes the double     *)
(* (h * 2^53 + l) / 8 as the record [h, l], with l small.  Below 2^53      *)
(* eighths every such value is a double; from 2^53 on the spacing of the   *)
(* doubles is 2, 4, ... eighths and a sum is rounded to the nearest one,   *)
(* ties to the even significand.                                           *)
(***************************************************************************)
F(h, l) == [h |-> h, l |-> l]

Zero == F(0, 0)

RECURSIVE P2(_)
\* the largest power of two that is <= n, for n >= 1
P2(n) == IF n < 2 THEN 1 ELSE 2 * P2(n \div 2)

\* x rounded to the nearest multiple of u, a tie going to the even quotient
RoundToMultiple(x, u) ==
    LET q == x \div u
        r == x % u
    IN  IF 2 * r < u THEN q * u
        ELSE IF 2 * r > u THEN (q + 1) * u
        ELSE IF q % 2 = 0 THEN q * u
        ELSE (q + 1) * u

\* the double nearest to the exact value h * 2^53 + l (round-half-even)
Round(h, l) ==
    LET s == IF h < 0 THEN -1 ELSE 1
        H == s * h
        L == s * l
        ulp == IF L >= 0 \/ H # P2(H) THEN 2 * P2(H) ELSE P2(H)
    IN  IF h = 0 THEN F(0, l) ELSE F(h, s * RoundToMultiple(L, ulp))

\* float + float
FAdd(a, b) == Round(a.h + b.h, a.l + b.l)

\* -float (exact)
FNeg(a) == F(-a.h, -a.l)

FIsNeg(a) == a.h < 0 \/ (a.h = 0 /\ a.l < 0)

\* abs(float) (exact)
FAbs(a) == IF FIsNeg(a) THEN FNeg(a) ELSE a

\* int * float: the int converts exactly, the product is rounded once
FMulInt(k, a) == Round(k * a.h, k * a.l)

\* the real-number sum and product, with no rounding (what a decimal type gives)
ExactAdd(a, b) == F(a.h + b.h, a.l + b.l)

ExactMulInt(k, a) == F(k * a.h, k * a.l)

\* f"{x:.2f}": the amount in cents, rounded half-even from the exact value.
\* (h * 2^53 + l) / 8 pounds is h * 25 * 2^52 + 12.5 * l cents.
Fmt2(a) == [big |-> a.h, cents |-> RoundToMultiple(25 * a.l, 2) \div 2]


(***************************************************************************)
(* Time.  The clock counts ticks of 1/TicksPerDay day.  datetime.now() is  *)
(* the clock; strftime("%Y-%m-%d") keeps the calendar day and drops the    *)
(* time of day, strptime gives that day's midnight back.                   *)
(***************************************************************************)
TicksPerDay == 2

\* datetime.now().strftime("%Y-%m-%d"): the calendar day of tick t
DateOf(t) == t \div TicksPerDay

\* datetime.now().strftime("%Y-%m-%d %H:%M"): the day and the time of day
StampOf(t) == [day |-> t \div TicksPerDay, hm |-> t % TicksPerDay]

\* datetime.strptime(d, "%Y-%m-%d"): midnight of day d, in ticks
MidnightOf(d) == d * TicksPerDay

\* (now - last_date).days: whole days, rounded toward minus infinity
DaysSince(t, d) == (t - MidnightOf(d)) \div TicksPerDay

(***************************************************************************)
(* Inbound text.  A message is the sequence of its whitespace-separated    *)
(* tokens, which is what text.split() returns; " ".join(parts[2:]) is the  *)
(* sequence of the tokens after the amount.                                *)
(***************************************************************************)
\* the tokens float() accepts, with the double each denotes
NumTokens == {"0.125", "1", "5", "10.5", "-1", "1125899906842624"}

\* float(tok) for tok \in NumTokens; every other token raises ValueError
FloatOf(tok) ==
    CASE tok = "0.125" -> F(0, 1)
      [] tok = "1" -> F(0, 8)
      [] tok = "5" -> F(0, 40)
      [] tok = "10.5" -> F(0, 84)
      [] tok = "-1" -> F(0, -8)
      [] tok = "1125899906842624" -> F(1, 0)

IsFloat(tok) == tok \in NumTokens

\* str.lower() on the command token
Lower(tok) ==
    CASE tok = "/ADD" -> "/add"
      [] tok = "/Balance" -> "/balance"
      [] tok = "/SET" -> "/set"
      [] OTHER -> tok

\* the tokens of the model that begin with "/"
SlashTokens ==
    {"/add", "/sub", "/withdraw", "/set", "/balance", "/history", "/help",
     "/usage", "/ADD", "/Balance", "/SET", "/foo"}

\* incoming_text and incoming_text.startswith("/")
IsCommandText(text) == Len(text) > 0 /\ text[1] \in SlashTokens

\* parts[2:] joined by spaces
CommentOf(parts) == SubSeq(parts, 3, Len(parts))

\* the placeholder add_transaction stores for an empty comment
ManualEntry == <<"Manual", "Entry">>

\* f"Auto-allowance ({weeks} wks)"
AutoComment(w) == <<"Auto-allowance", "(" \o ToString(w), "wks)">>

(***************************************************************************)
(* The ledger (self.state) and budget_state.json.                          *)
(***************************************************************************)
HistCap == 10

\* the dictionary load_state builds when the file cannot be read or parsed
DefaultState(t) ==
    [balance |-> Zero,
     weekly_amount |-> F(0, 8),
     last_weekly_update |-> DateOf(t),
     history |-> <<>>]

\* a value that has the four keys the rest of the program reads
IsLedger(v) ==
    DOMAIN v = {"balance", "weekly_amount", "last_weekly_update", "history"}

\* the content of budget_state.json: no file, bytes that are not JSON (an
\* empty or cut-off file), or a JSON document with its parsed value
NoFile == [kind |-> "absent"]

Garbage == [kind |-> "garbage"]

JsonFile(v) == [kind |-> "json", value |-> v]

\* JSON documents that parse but are no ledger: {"balance": 0.0} and []
PartialDoc == [balance |-> Zero]

ListDoc == [items |-> <<>>]

\* no process, hence no in-memory ledger
NotLoaded == [unloaded |-> TRUE]

\* load_state: json.load's value whatever it is; the defaults on OSError
\* (no file) and on ValueError (not JSON)
LoadState(f, t) == IF f.kind = "json" THEN f.value ELSE DefaultState(t)

\* The outcomes of save_state: the dump is written; open() raises OSError and
\* the file is as it was; open() has emptied the file and the write raises.
SaveOutcomes == {"ok", "eopen", "ewrite"}

\* a slip in save_state: the dump is built and never written
SaveState_NoWrite(st, f, o) ==
    CASE o = "ok" -> [file |-> f, raised |-> FALSE]
      [] o = "eopen" -> [file |-> f, raised |-> TRUE]
      [] o = "ewrite" -> [file |-> Garbage, raised |-> TRUE]

\* save_state: the file afterwards, and whether OSError was raised
SaveState(st, f, o) ==
    CASE o = "ok" -> [file |-> JsonFile(st), raised |-> FALSE]
      [] o = "eopen" -> [file |-> f, raised |-> TRUE]
      [] o = "ewrite" -> [file |-> Garbage, raised |-> TRUE]

\* a slip in the slice: history[:10] keeps the oldest entries
LastN_KeepsOldest(h) == IF Len(h) > HistCap THEN SubSeq(h, 1, HistCap) ELSE h

\* history[-10:]
LastN(h) == IF Len(h) > HistCap THEN SubSeq(h, Len(h) - HistCap + 1, Len(h)) ELSE h

\* the history entry add_transaction appends
Entry(amount, comment, t) ==
    [date |-> StampOf(t),
     amount |-> amount,
     comment |-> IF comment = <<>> THEN ManualEntry ELSE comment]

\* add_transaction up to its save_state: the mutated dictionary
AddTransaction(st, amount, comment, t) ==
    [st EXCEPT !.balance = FAdd(@, amount),
               !.history = LastN(Append(@, Entry(amount, comment, t)))]

(***************************************************************************)
(* handle_command.  A reply is a record whose kind names the text and      *)
(* whose other fields are the values formatted into it.                    *)
(***************************************************************************)
NoReply == [kind |-> "none"]

UsageReply == [kind |-> "usage"]

\* a slip in the key: the weekly amount is reported as the balance
BalanceReply_WrongKey(st) == [kind |-> "balance", bal |-> Fmt2(st.weekly_amount)]

BalanceReply(st) == [kind |-> "balance", bal |-> Fmt2(st.balance)]

HistoryReply(st) ==
    IF st.history = <<>> THEN [kind |-> "nohistory"]
    ELSE [kind |-> "history",
          lines |-> [i \in DOMAIN st.history |->
                        [date |-> st.history[i].date,
                         amount |-> Fmt2(st.history[i].amount),
                         comment |-> st.history[i].comment]]]

\* "Invalid amount. Use: /add 5.00 chocolate"
InvalidReply == [kind |-> "invalid", use |-> "/add 5.00 chocolate"]

\* f"Error: {str(e)}"
ErrorReply(e) == [kind |-> "error", exc |-> e]

\* a slip in the sign test: /withdraw is not negated
TransactionCommand_WithdrawAdds(st, f, cmd, parts, t, o) ==
    IF ~IsFloat(parts[2])
    THEN [state |-> st, file |-> f, reply |-> InvalidReply]
    ELSE LET amt == IF cmd = "/sub"
                    THEN FNeg(FloatOf(parts[2])) ELSE FloatOf(parts[2])
             action == IF cmd = "/sub" THEN "Subtracted" ELSE "Added"
             st2 == AddTransaction(st, amt, CommentOf(parts), t)
             sv == SaveState(st2, f, o)
         IN  [state |-> st2,
              file |-> sv.file,
              reply |-> IF sv.raised THEN ErrorReply("OSError")
                        ELSE [kind |-> action,
                              amount |-> Fmt2(FAbs(amt)),
                              bal |-> Fmt2(st2.balance)]]

\* the branch of /add, /sub and /withdraw with an amount token
TransactionCommand(st, f, cmd, parts, t, o) ==
    IF ~IsFloat(parts[2])
    THEN [state |-> st, file |-> f, reply |-> InvalidReply]
    ELSE LET amt == IF cmd \in {"/sub", "/withdraw"}
                    THEN FNeg(FloatOf(parts[2])) ELSE FloatOf(parts[2])
             action == IF cmd \in {"/sub", "/withdraw"} THEN "Subtracted" ELSE "Added"
             st2 == AddTransaction(st, amt, CommentOf(parts), t)
             sv == SaveState(st2, f, o)
         IN  [state |-> st2,
              file |-> sv.file,
              reply |-> IF sv.raised THEN ErrorReply("OSError")
                        ELSE [kind |-> action,
                              amount |-> Fmt2(FAbs(amt)),
                              bal |-> Fmt2(st2.balance)]]

\* a slip in /set: the new amount counts from tomorrow, the date moves a day
SetCommand_MovesDate(st, f, parts, o) ==
    IF ~IsFloat(parts[2])
    THEN [state |-> st, file |-> f, reply |-> ErrorReply("ValueError")]
    ELSE LET st2 == [st EXCEPT !.weekly_amount = FloatOf(parts[2]),
                               !.last_weekly_update = @ + 1]
             sv == SaveState(st2, f, o)
         IN  [state |-> st2,
              file |-> sv.file,
              reply |-> IF sv.raised THEN ErrorReply("OSError")
                        ELSE [kind |-> "set", weekly |-> Fmt2(st2.weekly_amount)]]

\* the branch of /set with an amount token
SetCommand(st, f, parts, o) ==
    IF ~IsFloat(parts[2])
    THEN [state |-> st, file |-> f, reply |-> ErrorReply("ValueError")]
    ELSE LET st2 == [st EXCEPT !.weekly_amount = FloatOf(parts[2])]
             sv == SaveState(st2, f, o)
         IN  [state |-> st2,
              file |-> sv.file,
              reply |-> IF sv.raised THEN ErrorReply("OSError")
                        ELSE [kind |-> "set", weekly |-> Fmt2(st2.weekly_amount)]]

\* a slip in the last branch: what no branch takes is answered with the usage
HandleCommand_AnswersAll(st, f, parts, t, o) ==
    LET cmd == Lower(parts[1])
        same(r) == [state |-> st, file |-> f, reply |-> r]
    IN  IF parts = <<>> THEN same(NoReply)
        ELSE IF cmd \in {"/usage", "/help"} THEN same(UsageReply)
        ELSE IF cmd = "/balance" THEN same(BalanceReply(st))
        ELSE IF cmd = "/history" THEN same(HistoryReply(st))
        ELSE IF cmd \in {"/add", "/sub", "/withdraw"} /\ Len(parts) > 1
             THEN TransactionCommand(st, f, cmd, parts, t, o)
        ELSE IF cmd = "/set" /\ Len(parts) > 1 THEN SetCommand(st, f, parts, o)
        ELSE same(UsageReply)

\* handle_command(text): the ledger, the file and the reply afterwards
HandleCommand(st, f, parts, t, o) ==
    LET cmd == Lower(parts[1])
        same(r) == [state |-> st, file |-> f, reply |-> r]
    IN  IF parts = <<>> THEN same(NoReply)
        ELSE IF cmd \in {"/usage", "/help"} THEN same(UsageReply)
        ELSE IF cmd = "/balance" THEN same(BalanceReply(st))
        ELSE IF cmd = "/history" THEN same(HistoryReply(st))
        ELSE IF cmd \in {"/add", "/sub", "/withdraw"} /\ Len(parts) > 1
             THEN TransactionCommand(st, f, cmd, parts, t, o)
        ELSE IF cmd = "/set" /\ Len(parts) > 1 THEN SetCommand(st, f, parts, o)
        ELSE same(NoReply)

\* whether handle_command reaches save_state for this text
Saves(parts) ==
    /\ Len(parts) > 1
    /\ Lower(parts[1]) \in {"/add", "/sub", "/withdraw", "/set"}
    /\ IsFloat(parts[2])

(***************************************************************************)
(* The state of the system.                                                *)
(***************************************************************************)
VARIABLES
    state,     \* bot.state, the in-memory ledger (NotLoaded when no process runs)
    file,      \* the content of budget_state.json
    clock,     \* the wall clock, in ticks
    up,        \* whether the process runs
    pcP,       \* poll_signal_messages: "greet", "recv", "iter", "send"
    batch,     \* the messages of the current receive still to be looked at
    reply,     \* response_text, while its send is awaited
    pcW,       \* weekly_task: "check", "mid" (between its two saves), "sleep"
    now,       \* weekly_task's local now, while the check runs
    weeks,     \* weekly_task's local weeks, while the check runs
    applied,   \* history of the model: every entry add_transaction appended
               \* in this process, oldest first
    loaded,    \* history of the model: bot.state as __init__ loaded it
    net,       \* how the poll loop's latest call of the transport ended:
               \* "none" before the first, "ok", "fail"
    seen,      \* the text of msg, the message the for loop is at (<<>> outside it)
    restarts,  \* history of the model: how often the process was started again
    origin     \* history of the model: the last_weekly_update the ledger was
               \* created with (a start that finds no usable file creates one)

vars ==
    <<state, file, clock, up, pcP, batch, reply, pcW, now, weeks, applied,
      loaded, net, seen, restarts, origin>>

\* Bounds of the model
MaxRestarts == 1

MaxBatch == 2

MaxTx == 2

RECURSIVE SeqsUpTo(_, _)
\* the sequences over S of length 1 .. n
SeqsUpTo(S, n) ==
    IF n = 0 THEN {}
    ELSE {<<x>> : x \in S} \cup
         {<<x>> \o q : x \in S, q \in SeqsUpTo(S, n - 1)}

\* main(): BudgetBot() loads the file, then both coroutines start
Boot(f, t) ==
    /\ state = LoadState(f, t)
    /\ loaded = LoadState(f, t)
    /\ up = TRUE
    /\ pcP = "greet"
    /\ batch = <<>>
    /\ reply = NoReply
    /\ pcW = "check"
    /\ now = 0
    /\ weeks = 0
    /\ applied = <<>>
    /\ net = "none"
    /\ seen = <<>>

\* the process is gone: its memory with it
Halt ==
    /\ up' = FALSE
    /\ state' = NotLoaded
    /\ loaded' = NotLoaded
    /\ pcP' = "greet"
    /\ batch' = <<>>
    /\ reply' = NoReply
    /\ pcW' = "check"
    /\ now' = 0
    /\ weeks' = 0
    /\ applied' = <<>>
    /\ net' = "none"
    /\ seen' = <<>>

(***************************************************************************)
(* poll_signal_messages.  The coroutine is suspended while a send or the   *)
(* receive is awaited; between two awaits it runs without interruption.    *)
(* weekly_task never awaits between its two saves, so no step of the poll  *)
(* loop happens while it is there (pcW = "mid").                           *)
(***************************************************************************)
\* the texts that reach add_transaction
IsTxText(text) ==
    /\ IsCommandText(text)
    /\ Len(text) > 1
    /\ Lower(text[1]) \in {"/add", "/sub", "/withdraw"}
    /\ IsFloat(text[2])

\* how many messages of b reach add_transaction
TxCount(b) == Cardinality({i \in DOMAIN b : IsTxText(b[i])})

\* how a call of the transport ends: a response with a success status; or a
\* timeout, a connection error, another status, a body that is no JSON
NetOutcomes == {"ok", "fail"}

\* the startup notification has been sent (or its send has failed, which
\* send_signal_message only logs); reading bot.state["balance"] and
\* ["weekly_amount"] for it raises when the loaded value has no such keys
PollGreet(nets) ==
    /\ up /\ pcP = "greet" /\ pcW # "mid"
    /\ IF {"balance", "weekly_amount"} \subseteq DOMAIN state
       THEN /\ pcP' = "recv"
            /\ net' \in nets
            /\ UNCHANGED <<state, file, clock, up, batch, reply, pcW, now,
                           weeks, applied, loaded, seen, restarts, origin>>
       ELSE Halt /\ UNCHANGED <<file, clock, restarts, origin>>

\* session.get returned the messages b
PollReceive(texts, maxLen, cap) ==
    /\ up /\ pcP = "recv" /\ pcW # "mid"
    /\ \E b \in SeqsUpTo(texts, maxLen) :
          /\ Len(applied) + TxCount(b) <= cap
          /\ batch' = b
    /\ pcP' = "iter"
    /\ net' = "ok"
    /\ UNCHANGED <<state, file, clock, up, reply, pcW, now, weeks, applied,
                   loaded, seen, restarts, origin>>

\* session.get timed out or raised, the status was not 200, or json.loads
\* raised on the body: there is nothing to iterate over, the exception (if
\* any) is logged at line 149 and the loop goes to its sleep
PollReceiveFails ==
    /\ up /\ pcP = "recv" /\ pcW # "mid"
    /\ batch' = <<>>
    /\ pcP' = "iter"
    /\ net' = "fail"
    /\ UNCHANGED <<state, file, clock, up, reply, pcW, now, weeks, applied,
                   loaded, seen, restarts, origin>>

\* a slip in the scheduling: the message is handled although weekly_task is
\* between its two saves, as if add_transaction awaited
PollHandle_Interleaved(outcomes) ==
    /\ up /\ pcP = "iter" /\ batch # <<>>
    /\ LET text == Head(batch)
       IN  IF IsCommandText(text)
           THEN \E o \in (IF Saves(text) THEN outcomes ELSE {"ok"}) :
                   LET r == HandleCommand(state, file, text, clock, o)
                   IN  /\ state' = r.state
                       /\ file' = r.file
                       /\ reply' = r.reply
                       /\ pcP' = IF r.reply = NoReply THEN "iter" ELSE "send"
                       /\ applied' =
                            IF IsTxText(text)
                            THEN Append(applied, Entry(
                                    IF Lower(text[1]) = "/add"
                                    THEN FloatOf(text[2])
                                    ELSE FNeg(FloatOf(text[2])),
                                    CommentOf(text), clock))
                            ELSE applied
           ELSE UNCHANGED <<state, file, reply, pcP, applied>>
    /\ batch' = Tail(batch)
    /\ seen' = Head(batch)
    /\ UNCHANGED <<clock, up, pcW, now, weeks, loaded, net, restarts, origin>>

\* one turn of "for msg in messages": a text that begins with "/" goes to
\* handle_command, whose reply, if any, is handed to send_signal_message
PollHandle(outcomes) ==
    /\ up /\ pcP = "iter" /\ batch # <<>> /\ pcW # "mid"
    /\ LET text == Head(batch)
       IN  IF IsCommandText(text)
           THEN \E o \in (IF Saves(text) THEN outcomes ELSE {"ok"}) :
                   LET r == HandleCommand(state, file, text, clock, o)
                   IN  /\ state' = r.state
                       /\ file' = r.file
                       /\ reply' = r.reply
                       /\ pcP' = IF r.reply = NoReply THEN "iter" ELSE "send"
                       /\ applied' =
                            IF IsTxText(text)
                            THEN Append(applied, Entry(
                                    IF Lower(text[1]) = "/add"
                                    THEN FloatOf(text[2])
                                    ELSE FNeg(FloatOf(text[2])),
                                    CommentOf(text), clock))
                            ELSE applied
           ELSE UNCHANGED <<state, file, reply, pcP, applied>>
    /\ batch' = Tail(batch)
    /\ seen' = Head(batch)
    /\ UNCHANGED <<clock, up, pcW, now, weeks, loaded, net, restarts, origin>>

\* the batch is finished: asyncio.sleep(POLL_INTERVAL), then the next receive
PollNext ==
    /\ up /\ pcP = "iter" /\ batch = <<>> /\ pcW # "mid"
    /\ pcP' = "recv"
    /\ seen' = <<>>
    /\ UNCHANGED <<state, file, clock, up, batch, reply, pcW, now, weeks,
                   applied, loaded, net, restarts, origin>>

\* a slip in the containment: a send that fails raises into line 148, and
\* the rest of the batch is given up
PollSend_FailureRaises(nets) ==
    /\ up /\ pcP = "send" /\ pcW # "mid"
    /\ pcP' = "iter"
    /\ reply' = NoReply
    /\ net' \in nets
    /\ batch' = IF net' = "fail" THEN <<>> ELSE batch
    /\ UNCHANGED <<state, file, clock, up, pcW, now, weeks, applied,
                   loaded, seen, restarts, origin>>

\* send_signal_message returned: delivered or failed, it never raises
PollSend(nets) ==
    /\ up /\ pcP = "send" /\ pcW # "mid"
    /\ pcP' = "iter"
    /\ reply' = NoReply
    /\ net' \in nets
    /\ UNCHANGED <<state, file, clock, up, batch, pcW, now, weeks, applied,
                   loaded, seen, restarts, origin>>

(***************************************************************************)
(* weekly_task.                                                            *)
(***************************************************************************)
\* a slip in the threshold: any day past the last update counts
Due_AnyDay(days) == days >= 1

\* (now - last_date).days >= 7
Due(days) == days >= 7

\* (now - last_date).days // 7
WeeksDue(days) == days \div 7

\* a slip in the advance: the date moves to today
AdvancedDate_Today(last, w) == DateOf(clock)

\* (last_date + timedelta(weeks=weeks)).strftime("%Y-%m-%d")
AdvancedDate(last, w) == DateOf(MidnightOf(last) + w * 7 * TicksPerDay)

\* the check up to and including add_transaction (which saves): lines 154-160
WeeklyCheck(outcomes) ==
    /\ up /\ pcW = "check"
    /\ IF "last_weekly_update" \notin DOMAIN state
       THEN Halt /\ UNCHANGED <<file, clock, restarts, origin>>
       ELSE LET days == DaysSince(clock, state.last_weekly_update)
                w == WeeksDue(days)
                total == FMulInt(w, state.weekly_amount)
                st2 == AddTransaction(state, total, AutoComment(w), clock)
            IN  IF Due(days)
                THEN \E o \in outcomes :
                        LET sv == SaveState(st2, file, o)
                        IN  IF sv.raised
                            THEN /\ Halt
                                 /\ file' = sv.file
                                 /\ UNCHANGED <<clock, restarts, origin>>
                            ELSE /\ state' = st2
                                 /\ file' = sv.file
                                 /\ pcW' = "mid"
                                 /\ now' = clock
                                 /\ weeks' = w
                                 /\ applied' = Append(applied,
                                        Entry(total, AutoComment(w), clock))
                                 /\ UNCHANGED <<clock, up, pcP, batch, reply,
                                                loaded, net, seen, restarts,
                                                origin>>
                ELSE /\ pcW' = "sleep"
                     /\ UNCHANGED <<state, file, clock, up, pcP, batch, reply,
                                    now, weeks, applied, loaded, net, seen,
                                    restarts, origin>>

\* the rest of the check: the date moves on and is saved, lines 161-163
WeeklyAdvance(outcomes) ==
    /\ up /\ pcW = "mid"
    /\ \E o \in outcomes :
          LET st2 == [state EXCEPT !.last_weekly_update = AdvancedDate(@, weeks)]
              sv == SaveState(st2, file, o)
          IN  IF sv.raised
              THEN /\ Halt
                   /\ file' = sv.file
                   /\ UNCHANGED <<clock, restarts, origin>>
              ELSE /\ state' = st2
                   /\ file' = sv.file
                   /\ pcW' = "sleep"
                   /\ now' = 0
                   /\ weeks' = 0
                   /\ UNCHANGED <<clock, up, pcP, batch, reply, applied,
                                  loaded, net, seen, restarts, origin>>

\* a slip in the wiring: the check is a part of the poll loop's turn, made
\* after a receive, and not a coroutine of its own
WeeklyWake_AfterReceive ==
    /\ up /\ pcW = "sleep" /\ pcP = "iter"
    /\ pcW' = "check"
    /\ UNCHANGED <<state, file, clock, up, pcP, batch, reply, now, weeks,
                   applied, loaded, net, seen, restarts, origin>>

\* asyncio.sleep(3600) is over
WeeklyWake ==
    /\ up /\ pcW = "sleep"
    /\ pcW' = "check"
    /\ UNCHANGED <<state, file, clock, up, pcP, batch, reply, now, weeks,
                   applied, loaded, net, seen, restarts, origin>>

(***************************************************************************)
(* The environment: time passes, the process is stopped and started.       *)
(***************************************************************************)
\* the clock moves on by one of the steps
Tick(steps, maxClock) ==
    /\ \E d \in steps :
          /\ clock + d <= maxClock
          /\ clock' = clock + d
    /\ UNCHANGED <<state, file, up, pcP, batch, reply, pcW, now, weeks,
                   applied, loaded, net, seen, restarts, origin>>

\* the process is killed, at any point
Stop ==
    /\ up
    /\ Halt
    /\ UNCHANGED <<file, clock, restarts, origin>>

\* python budget_bot.py: main() constructs BudgetBot and starts both loops
Restart ==
    /\ ~up /\ restarts < MaxRestarts
    /\ up' = TRUE
    /\ restarts' = restarts + 1
    /\ origin' = IF file.kind = "json" THEN origin ELSE DateOf(clock)
    /\ state' = LoadState(file, clock)
    /\ loaded' = LoadState(file, clock)
    /\ pcP' = "greet"
    /\ pcW' = "check"
    /\ UNCHANGED <<file, clock, batch, reply, now, weeks, applied, net, seen>>

(***************************************************************************)
(* The whole program, on a few messages.                                   *)
(***************************************************************************)
BigToken == "1125899906842624"

Texts ==
    {<<"/add", BigToken>>, <<"/add", "0.125", "sweets">>, <<"/sub", BigToken>>,
     <<"/balance">>}

MaxWeeks == 1

Week == 7 * TicksPerDay

Init ==
    /\ clock = 0
    /\ file = NoFile
    /\ restarts = 0
    /\ origin = DateOf(0)
    /\ Boot(NoFile, 0)

Next ==
    \/ PollGreet(NetOutcomes)
    \/ PollReceive(Texts, MaxBatch, MaxTx)
    \/ PollReceiveFails
    \/ PollHandle(SaveOutcomes)
    \/ PollNext
    \/ PollSend(NetOutcomes)
    \/ WeeklyCheck(SaveOutcomes)
    \/ WeeklyAdvance(SaveOutcomes)
    \/ WeeklyWake
    \/ Tick({Week}, MaxWeeks * Week)
    \/ Stop
    \/ Restart

Spec == Init /\ [][Next]_vars

(***************************************************************************)
(* The accrual loop alone, day by day, with stops and restarts; the poll      *)
(* loop stays in its startup send.                                         *)
(***************************************************************************)
MaxDay == 17

\* a snapshot an earlier run left: /set 5 and nothing else, on day 0
FiveAWeek ==
    JsonFile([DefaultState(0) EXCEPT !.weekly_amount = FloatOf("5")])

InitAccrual ==
    /\ clock = 0
    /\ restarts = 0
    /\ origin = DateOf(0)
    /\ file \in {NoFile, FiveAWeek}
    /\ Boot(file, 0)

NextAccrual ==
    \/ WeeklyCheck({"ok"})
    \/ WeeklyAdvance({"ok"})
    \/ WeeklyWake
    \/ Tick({1}, MaxDay * TicksPerDay)
    \/ Stop
    \/ Restart

SpecAccrual == InitAccrual /\ [][NextAccrual]_vars

(***************************************************************************)
(* The poll loop alone, one message per receive, on many commands.         *)
(***************************************************************************)
CmdTexts ==
    {<<"/add", "10.5", "birthday">>, <<"/sub", "5", "coffee">>,
     <<"/withdraw", "0.125">>, <<"/ADD", "-1", "pocket", "money">>,
     <<"/add", "abc">>, <<"/sub", "abc", "tea">>, <<"/withdraw", "abc">>,
     <<"/set", "abc">>, <<"/set", "5">>, <<"/SET", "-1">>,
     <<"/balance">>, <<"/Balance">>, <<"/history">>, <<"/help">>, <<"/usage">>,
     <<"/add">>, <<"/sub">>, <<"/withdraw">>, <<"/set">>, <<"/foo">>,
     <<"hello">>, <<"add", "5">>}

NextCmd ==
    \/ PollGreet(NetOutcomes)
    \/ PollReceive(CmdTexts, 1, MaxTx)
    \/ PollReceiveFails
    \/ PollHandle(SaveOutcomes)
    \/ PollNext
    \/ PollSend(NetOutcomes)

SpecCmd == Init /\ [][NextCmd]_vars

(***************************************************************************)
(* The poll loop alone on two commands, for long runs of transactions.     *)
(***************************************************************************)
MaxTxHist == 12

HistTexts == {<<"/add", "1", "a">>, <<"/sub", "0.125">>}

NextHist ==
    \/ PollGreet({"ok"})
    \/ PollReceive(HistTexts, 1, MaxTxHist)
    \/ PollHandle({"ok"})
    \/ PollNext
    \/ PollSend({"ok"})

SpecHistory == Init /\ [][NextHist]_vars

(***************************************************************************)
(* load_state on the files a start can find.                               *)
(***************************************************************************)
LedgerDocs ==
    {[balance |-> b, weekly_amount |-> w, last_weekly_update |-> 0,
      history |-> h] :
        b \in {Zero, F(0, 84)}, w \in {F(0, 8), F(0, 40)},
        h \in {<<>>, <<Entry(F(0, 84), <<"birthday">>, 0)>>}}

LoadFiles ==
    {NoFile, Garbage, JsonFile(PartialDoc), JsonFile(ListDoc)}
        \cup {JsonFile(v) : v \in LedgerDocs}

\* no process yet, and some file (or none) where budget_state.json belongs
InitLoad ==
    /\ clock = 0
    /\ restarts = 0
    /\ origin = DateOf(0)
    /\ file \in LoadFiles
    /\ up = FALSE
    /\ state = NotLoaded
    /\ loaded = NotLoaded
    /\ pcP = "greet"
    /\ batch = <<>>
    /\ reply = NoReply
    /\ pcW = "check"
    /\ now = 0
    /\ weeks = 0
    /\ applied = <<>>
    /\ net = "none"
    /\ seen = <<>>

NextLoad ==
    \/ Restart
    \/ PollGreet(NetOutcomes)
    \/ WeeklyCheck({"ok"})
    \/ WeeklyAdvance({"ok"})
    \/ WeeklyWake
    \/ Tick({1}, MaxWeeks * Week)
    \/ Stop

SpecLoad == InitLoad /\ [][NextLoad]_vars

(***************************************************************************)
(* Both loops in their steady state: nobody stops the process, the         *)
(* transport and the disk may fail at every call.  The clock is looked at  *)
(* every 8 days, so that a check finds a week and a day, or two and two.   *)
(***************************************************************************)
SteadyTexts ==
    {<<"/add", "10.5", "birthday">>, <<"/withdraw", "0.125">>, <<"/set", "5">>,
     <<"/set", "abc">>, <<"/balance">>, <<"/history">>, <<"/help">>,
     <<"/foo">>, <<"hello">>}

NextSteady ==
    \/ PollGreet(NetOutcomes)
    \/ PollReceive(SteadyTexts, 1, MaxTx)
    \/ PollReceiveFails
    \/ PollHandle(SaveOutcomes)
    \/ PollNext
    \/ PollSend(NetOutcomes)
    \/ WeeklyCheck(SaveOutcomes)
    \/ WeeklyAdvance(SaveOutcomes)
    \/ WeeklyWake
    \/ Tick({Week + TicksPerDay}, MaxDay * TicksPerDay)

SpecSteady == Init /\ [][NextSteady]_vars

(***************************************************************************)
(* Both loops under the scheduling of the asyncio event loop.  weekly_task *)
(* awaits nothing but asyncio.sleep(3600), which returns: its next step is *)
(* always taken in the end.  The poll loop awaits the transport: the       *)
(* receive has a timeout of 10 s and the send the default timeout of the   *)
(* session, so each call returns, well or badly, and the next step is      *)
(* taken (SpecLive); when the transport hangs instead, the poll loop may   *)
(* stay for ever where it is (SpecStalled).                                *)
(***************************************************************************)
LiveTexts == {<<"/add", "1", "a">>, <<"/balance">>, <<"hello">>}

PollStep ==
    \/ PollGreet(NetOutcomes)
    \/ PollReceive(LiveTexts, MaxBatch, MaxTx)
    \/ PollReceiveFails
    \/ PollHandle(SaveOutcomes)
    \/ PollNext
    \/ PollSend(NetOutcomes)

WeeklyStep ==
    \/ WeeklyCheck({"ok"})
    \/ WeeklyAdvance({"ok"})
    \/ WeeklyWake

NextLive ==
    \/ PollStep
    \/ WeeklyStep
    \/ Tick({Week}, MaxWeeks * Week)

SpecLive ==
    Init /\ [][NextLive]_vars /\ WF_vars(PollStep) /\ WF_vars(WeeklyStep)

SpecStalled == Init /\ [][NextLive]_vars /\ WF_vars(WeeklyStep)

(***************************************************************************)
(* Properties.                                                             *)
(***************************************************************************)
RECURSIVE SumExact(_)
\* the real-number sum of the amounts of the entries es
SumExact(es) ==
    IF es = <<>> THEN Zero ELSE ExactAdd(es[1].amount, SumExact(Tail(es)))

RECURSIVE SumFloat(_, _)
\* b + es[1].amount + es[2].amount + ..., each + rounded as a double is
SumFloat(b, es) ==
    IF es = <<>> THEN b ELSE SumFloat(FAdd(b, es[1].amount), Tail(es))

\* C1: the in-memory balance is the balance the process loaded plus the exact
\* sum of every amount add_transaction has applied since, evicted or not.
C1_BalanceIsExactSum ==
    (up /\ IsLedger(state)) =>
        state.balance = ExactAdd(loaded.balance, SumExact(applied))

\* What the code does keep: the balance is the left-to-right sum of the
\* applied amounts in double arithmetic, each addition rounded.
BalanceIsRoundedSum ==
    (up /\ IsLedger(state)) => state.balance = SumFloat(loaded.balance, applied)

\* C2: a ledger that started with an empty history holds, after n
\* transactions, exactly the last min(n, 10) of them in the order applied;
\* the history is never longer than 10.
C2_HistoryIsLastTen ==
    (up /\ IsLedger(state) /\ loaded.history = <<>>) =>
        LET n == Len(applied)
            m == IF n < 10 THEN n ELSE 10
        IN  /\ Len(state.history) <= 10
            /\ state.history = SubSeq(applied, n - m + 1, n)

\* C2 witness: the 11th transaction has evicted the 1st, which differed from
\* the 2nd, and the 2nd now heads the history
C2_Witness ==
    /\ up /\ IsLedger(state) /\ loaded.history = <<>>
    /\ Len(applied) = 11
    /\ Len(state.history) = 10
    /\ applied[1] # applied[2]
    /\ state.history[1] = applied[2]
    /\ state.history[10] = applied[11]

\* a step in which the poll loop takes the next message of the batch (and,
\* when it begins with "/", runs handle_command on it)
Handled == up /\ up' /\ pcP = "iter" /\ batch # <<>> /\ batch' = Tail(batch)

C3_Step ==
    (Handled /\ IsTxText(Head(batch))) =>
        LET text == Head(batch)
            c == Lower(text[1])
            signed == IF c = "/add" THEN FloatOf(text[2])
                      ELSE FNeg(FloatOf(text[2]))
            e == [date |-> StampOf(clock),
                  amount |-> signed,
                  comment |-> IF Len(text) > 2 THEN SubSeq(text, 3, Len(text))
                              ELSE ManualEntry]
            h == Append(state.history, e)
        IN  /\ state'.balance = FAdd(state.balance, signed)
            /\ state'.history = IF Len(h) > 10 THEN Tail(h) ELSE h
            /\ state'.weekly_amount = state.weekly_amount
            /\ state'.last_weekly_update = state.last_weekly_update
            /\ \/ /\ reply'.kind = IF c = "/add" THEN "Added" ELSE "Subtracted"
                  /\ reply'.bal = Fmt2(state'.balance)
               \/ /\ reply'.kind = "error"
                  /\ file' # JsonFile(state')

\* C3: "/add a [comment]" applies exactly one transaction of +a, "/sub a" and
\* "/withdraw a" one of -a; the new history entry carries the signed amount
\* and the comment (the placeholder when there is none); a confirmation
\* reports the balance as it is right after the transaction (the only other
\* reply is the error reply of a save that failed).
C3_AddSubApply == [][C3_Step]_vars

\* C3 witness: "/add 10.50 birthday" on 0.00, then "/sub 5 coffee": balance
\* 5.50, stored amounts 10.50 and -5.00, the reply reports 5.50
C3_Witness ==
    /\ up /\ pcP = "send"
    /\ reply.kind = "Subtracted"
    /\ reply.bal = [big |-> 0, cents |-> 550]
    /\ state.balance = F(0, 44)
    /\ Len(state.history) = 2
    /\ state.history[1].amount = F(0, 84)
    /\ state.history[1].comment = <<"birthday">>
    /\ state.history[2].amount = F(0, -40)
    /\ state.history[2].comment = <<"coffee">>

C7_Step ==
    (/\ Handled
     /\ IsCommandText(Head(batch))
     /\ Len(Head(batch)) > 1
     /\ Lower(Head(batch)[1]) \in {"/add", "/sub", "/withdraw", "/set"}
     /\ ~IsFloat(Head(batch)[2])) =>
        /\ reply'.kind = "invalid"
        /\ state' = state
        /\ file' = file

\* C7: /add, /sub, /withdraw and /set with an amount token that is no number
\* answer with the reply that names the expected syntax and change neither
\* the ledger nor the file.
C7_InvalidAmountReply == [][C7_Step]_vars

C8_Step ==
    (/\ Handled
     /\ IsCommandText(Head(batch))
     /\ Lower(Head(batch)[1]) \in {"/balance", "/history", "/help", "/usage"}) =>
        /\ state' = state
        /\ file' = file
        /\ applied' = applied
        /\ reply' # NoReply
        /\ Lower(Head(batch)[1]) = "/balance" =>
              /\ reply'.kind = "balance"
              /\ reply'.bal = Fmt2(state.balance)

\* C8: /balance, /history, /help and /usage change neither the ledger nor
\* the file, however often they come; /balance reports the in-memory balance.
C8_ReadOnlyCommands == [][C8_Step]_vars

\* C8 witness: /balance has just been answered, on a ledger that two
\* transactions have brought to 5.50 and that is saved
C8_Witness ==
    /\ up /\ pcP = "send"
    /\ reply.kind = "balance"
    /\ reply.bal = [big |-> 0, cents |-> 550]
    /\ state.balance = F(0, 44)
    /\ Len(state.history) = 2
    /\ file = JsonFile(state)

\* C10: the weekly amount is never negative.
C10_WeeklyNonNegative ==
    (up /\ IsLedger(state)) => ~FIsNeg(state.weekly_amount)

\* weekly_task ran lines 154-160 of one check, and was not ended by them
Checked == up /\ up' /\ pcW = "check" /\ pcW' # "check" /\ IsLedger(state)

\* weekly_task ran lines 161-163 of one check, and was not ended by them
Advanced == up /\ up' /\ pcW = "mid" /\ pcW' # "mid"

C4_Step ==
    /\ (Checked /\ DaysSince(clock, state.last_weekly_update) >= 7) =>
          LET d == DaysSince(clock, state.last_weekly_update)
              k == d \div 7
              e == [date |-> StampOf(clock),
                    amount |-> ExactMulInt(k, state.weekly_amount),
                    comment |-> AutoComment(k)]
              h == Append(state.history, e)
          IN  /\ pcW' = "mid"
              /\ weeks' = k
              /\ now' = clock
              /\ state'.balance = FAdd(state.balance, e.amount)
              /\ state'.history = IF Len(h) > 10 THEN Tail(h) ELSE h
              /\ Len(applied') = Len(applied) + 1
    /\ Advanced =>
          /\ pcW' = "sleep"
          /\ weeks = DaysSince(now, state.last_weekly_update) \div 7
          /\ state'.last_weekly_update = state.last_weekly_update + 7 * weeks
          /\ DaysSince(now, state'.last_weekly_update)
                = DaysSince(now, state.last_weekly_update) % 7
          /\ state'.balance = state.balance
          /\ state'.history = state.history
          /\ applied' = applied

\* C4: a check that finds d >= 7 whole days since last_weekly_update applies
\* exactly one transaction, of floor(d/7) * weekly_amount, and moves
\* last_weekly_update on by floor(d/7) * 7 days, not to today: d mod 7 days
\* stay counted.
C4_CatchUp == [][C4_Step]_vars

\* C4 witness: weekly amount 5, last update day 0, checked on day 17: one
\* transaction of 10 for 2 weeks, last update now day 14
C4_Witness ==
    /\ up /\ pcW = "sleep" /\ restarts = 0
    /\ state.weekly_amount = F(0, 40)
    /\ loaded.last_weekly_update = 0
    /\ Len(state.history) = 1
    /\ state.history[1].date.day = 17
    /\ state.history[1].amount = F(0, 80)
    /\ state.history[1].comment = AutoComment(2)
    /\ state.balance = F(0, 80)
    /\ state.last_weekly_update = 14

\* an entry the accrual loop made
IsAuto(e) == e.comment[1] = "Auto-allowance"

C5_Step ==
    /\ (Checked /\ DaysSince(clock, state.last_weekly_update) < 7) =>
          /\ pcW' = "sleep"
          /\ state' = state
          /\ file' = file
          /\ applied' = applied
    /\ (Checked /\ pcW' = "mid") =>
          \A i \in DOMAIN applied :
              ~(IsAuto(applied[i]) /\ applied[i].date = StampOf(clock))

\* C5: while the clock stands still the checks of a process make at most one
\* accrual transaction in all; a check with fewer than 7 days elapsed makes
\* none and leaves the ledger and the file as they are.
C5_AccrualIdempotent == [][C5_Step]_vars

\* C5 witness: an accrual was made at the present clock value, its check is
\* over, and the days that remain are fewer than 7
C5_Witness ==
    /\ up /\ pcW = "sleep"
    /\ Len(applied) = 1
    /\ IsAuto(applied[1])
    /\ applied[1].date = StampOf(clock)
    /\ DaysSince(clock, state.last_weekly_update) \in 1 .. 6
    /\ file = JsonFile(state)

C6_Step ==
    /\ (Checked /\ pcW' = "sleep") =>
          state'.balance =
              ExactMulInt(DaysSince(clock, origin) \div 7, state'.weekly_amount)
    /\ (Advanced /\ pcW' = "sleep") =>
          state'.balance =
              ExactMulInt(DaysSince(now, origin) \div 7, state'.weekly_amount)

\* C6: with the weekly amount W unchanged and no other transactions, the
\* balance when a check completes is floor(days since the original
\* last_weekly_update / 7) * W, whatever the schedule of checks, stops and
\* restarts.
C6_TotalAccrued == [][C6_Step]_vars

\* C9: what load_state returns has the four ledger keys, and it is the
\* defaults whenever the file is missing, is not JSON, or is JSON of another
\* shape.
C9_LoadGivesLedger ==
    up =>
        /\ IsLedger(loaded)
        /\ ~(file.kind = "json" /\ IsLedger(file.value)) =>
              /\ loaded.balance = Zero
              /\ loaded.weekly_amount = F(0, 8)
              /\ loaded.history = <<>>
              /\ loaded.last_weekly_update \in 0 .. DateOf(clock)

\* C11: once started on a usable ledger the process is never ended by a
\* failure of the transport, of a payload, of a command or of a write of the
\* file: with nobody stopping it, it runs for ever.
C11_NeverTerminates == up

\* the commands handle_command has a branch for
Recognized ==
    {"/add", "/sub", "/withdraw", "/set", "/balance", "/history", "/help",
     "/usage"}

\* a text without the "/" in front, a keyword that is no command, or /add,
\* /sub, /withdraw, /set with nothing after the keyword
Silent(text) ==
    \/ ~IsCommandText(text)
    \/ Lower(text[1]) \notin Recognized
    \/ Lower(text[1]) \in {"/add", "/sub", "/withdraw", "/set"} /\ Len(text) = 1

C12_Step ==
    (Handled /\ Silent(Head(batch))) =>
        /\ reply' = NoReply
        /\ pcP' = "iter"
        /\ net' = net
        /\ state' = state
        /\ file' = file
        /\ applied' = applied

\* C12: a message that does not begin with "/", one whose keyword is no
\* command, and /add, /sub, /withdraw or /set without an amount get no reply
\* and no send, and leave the ledger and the file as they are.
C12_SilentNoOp == [][C12_Step]_vars

\* C12 witness: after "/add 10.5 birthday" was applied and saved, "/add" alone
\* has been looked at: no reply is pending and ledger and file are as before
C12_Witness ==
    /\ up /\ pcP = "iter" /\ seen = <<"/add">>
    /\ reply = NoReply
    /\ Len(applied) = 1
    /\ state.balance = F(0, 84)
    /\ file = JsonFile(state)

C13_Step ==
    (/\ Handled
     /\ IsCommandText(Head(batch))
     /\ Lower(Head(batch)[1]) \notin Recognized) =>
        /\ reply' # NoReply
        /\ pcP' = "send"
        /\ state' = state
        /\ file' = file

\* C13: a message that begins with "/" and whose keyword is no command is
\* answered with a reply to the sender, and the ledger stays as it is.
C13_UnknownCommandReply == [][C13_Step]_vars

\* C14: no snapshot holds an accrual (its entry and its balance increase)
\* together with the last_weekly_update from before it: in every snapshot
\* each accrual entry is dated less than 7 days after last_weekly_update.
C14_AccrualAtomic ==
    (file.kind = "json" /\ IsLedger(file.value)) =>
        \A i \in DOMAIN file.value.history :
            IsAuto(file.value.history[i]) =>
                file.value.history[i].date.day
                    - file.value.last_weekly_update < 7

C15_Step ==
    /\ (up /\ up' /\ pcW = "mid") =>
          /\ pcP' = pcP /\ batch' = batch /\ reply' = reply
          /\ net' = net /\ seen' = seen
    /\ Handled =>
          /\ pcW' = pcW /\ now' = now /\ weeks' = weeks
    /\ (up' /\ file' # file) =>
          file' = JsonFile(state') \/ file' = Garbage
    /\ (up' /\ IsLedger(state')) =>
          /\ state'.balance = SumFloat(loaded'.balance, applied')
          /\ state'.history = LastN(loaded'.history \o applied')

\* C15: between the two saves of an accrual check the poll loop takes no
\* step, and a command is handled in one piece; balance and history hold
\* every transaction either loop applied (the balance as the doubles add
\* up), and a write of the file that succeeds stores the whole ledger as it
\* is in memory at that moment (one that fails leaves the file as it was, or
\* emptied).
C15_NoLostUpdate == [][C15_Step]_vars

\* C15 witness: "/add 10.5 birthday" was applied and saved, and while its
\* reply is being sent the accrual check has added a week and advanced the
\* date: ledger and file hold both
C15_Witness ==
    /\ up /\ pcP = "send" /\ reply.kind = "Added" /\ pcW = "sleep"
    /\ Len(applied) = 2
    /\ ~IsAuto(applied[1]) /\ IsAuto(applied[2])
    /\ state.history = applied
    /\ state.balance = F(0, 92)
    /\ state.last_weekly_update = 7
    /\ file = JsonFile(state)

\* session.get has returned, with messages or with a failure
ReceiveStep == up /\ pcP = "recv" /\ pcP' = "iter"

\* send_signal_message has returned, delivered or not
SendStep == up /\ up' /\ pcP = "send" /\ pcP' = "iter"

\* C16: whatever the transport does (receives that fail, sends that fail),
\* the poll loop performs a receive again and again; a send, failed or not,
\* leaves the rest of the batch in place, and every message still in the
\* batch is looked at in the end.
C16_PollSurvives ==
    /\ []<><<ReceiveStep>>_vars
    /\ [][SendStep => batch' = batch]_vars
    /\ \A x \in LiveTexts :
          (up /\ batch # <<>> /\ Head(batch) = x) ~> (seen = x)

\* C16 witness: the send of the reply to "/add 1 a" has failed, and "hello",
\* the second message of the batch, has been looked at after it
C16_Witness ==
    /\ up /\ pcP = "iter" /\ net = "fail"
    /\ seen = <<"hello">>
    /\ batch = <<>>
    /\ Len(applied) = 1
    /\ file = JsonFile(state)

\* an accrual is due and its check has not begun
DueState ==
    /\ up /\ pcW # "mid" /\ IsLedger(state)
    /\ DaysSince(clock, state.last_weekly_update) >= 7

\* C17: with the poll loop free to stay for ever in any of its transport
\* calls, the greeting included, an accrual that is due is applied in the
\* end; and while weekly_task sleeps the poll loop is never kept from its
\* next step, so that a transport that answers is polled again and again.
C17_LoopsIndependent ==
    /\ DueState ~> (up /\ pcW = "mid" /\ IsAuto(applied[Len(applied)]))
    /\ [](up /\ pcW = "sleep" => ENABLED <<PollStep>>_vars)
    /\ WF_vars(PollStep) => []<><<ReceiveStep>>_vars

\* C17 witness: the greeting has not returned yet, and the accrual of the
\* first week is applied, saved and dated
C17_Witness ==
    /\ up /\ pcP = "greet" /\ net = "none" /\ pcW = "sleep"
    /\ Len(applied) = 1
    /\ IsAuto(applied[1])
    /\ state.last_weekly_update = 7
    /\ file = JsonFile(state)

C18_Step ==
    (up /\ up' /\ IsLedger(state)) =>
        LET d == state'.last_weekly_update - state.last_weekly_update
        IN  /\ d >= 0
            /\ d # 0 => /\ d % 7 = 0
                        /\ pcW = "mid" /\ pcW' = "sleep"
                        /\ pcP' = pcP /\ batch' = batch
            /\ Handled => d = 0
            /\ (/\ Handled
                /\ IsCommandText(Head(batch))
                /\ Lower(Head(batch)[1]) = "/set") =>
                    /\ state'.balance = state.balance
                    /\ state'.history = state.history
                    /\ applied' = applied

\* C18: while a process runs, last_weekly_update never decreases; it changes
\* by a positive multiple of 7 days and only in the accrual check; no message
\* the poll loop handles changes it, and /set changes nothing but
\* weekly_amount.
C18_DateOnlyByAccrual == [][C18_Step]_vars

\* C18 witness: the check on day 16 has moved the date from day 0 to day 14,
\* and "/set 5" after it has changed the weekly amount and left the date
C18_Witness ==
    /\ up /\ pcP = "send" /\ reply.kind = "set" /\ pcW = "sleep"
    /\ seen = <<"/set", "5">>
    /\ loaded.last_weekly_update = 0
    /\ state.last_weekly_update = 14
    /\ state.weekly_amount = F(0, 40)
    /\ Len(state.history) = 1
    /\ file = JsonFile(state)

C19_Step ==
    (/\ Handled
     /\ IsCommandText(Head(batch))
     /\ reply'.kind \in {"invalid", "error"}) =>
        state' = state

\* C19: when handle_command answers with the invalid-amount reply or with
\* the generic error reply, the in-memory ledger is as it was before the
\* command.
C19_ErrorLeavesLedger == [][C19_Step]_vars

\* the replies that confirm a mutation
Confirmations == {"Added", "Subtracted", "set"}

C20_Step ==
    /\ (Handled /\ reply'.kind \in Confirmations) =>
          LET text == Head(batch)
              signed == IF Lower(text[1]) = "/add" THEN FloatOf(text[2])
                        ELSE FNeg(FloatOf(text[2]))
              h == file'.value.history
          IN  /\ pcP' = "send"
              /\ file' = JsonFile(state')
              /\ IF Lower(text[1]) = "/set"
                 THEN file'.value.weekly_amount = FloatOf(text[2])
                 ELSE /\ file'.value.balance = FAdd(state.balance, signed)
                      /\ h # <<>>
                      /\ h[Len(h)].amount = signed
    /\ SendStep =>
          /\ state' = state
          /\ file' = file
          /\ applied' = applied

\* C20: when handle_command returns the confirmation of /add, /sub,
\* /withdraw or /set, the file already holds the ledger with that command's
\* effect, and only then is the reply handed to the send; the send,
\* delivered or failed, changes neither ledger nor file.
C20_PersistBeforeReply == [][C20_Step]_vars

\* C20 witness: the send of the confirmation of "/add 10.5 birthday" has
\* failed, and ledger and file still hold the transaction
C20_Witness ==
    /\ up /\ pcP = "iter" /\ net = "fail"
    /\ seen = <<"/add", "10.5", "birthday">>
    /\ reply = NoReply
    /\ state.balance = F(0, 84)
    /\ Len(state.history) = 1
    /\ file = JsonFile(state)

=============================================================================
